---- MODULE Spec2Model ----
(***************************************************************************)
(* lab6.py: XMLFileHandler (read / write / append of one XML document on   *)
(* disk), the logged(exception_type, mode) decorator around each of its    *)
(* operations, and the two exceptions FileNotFoundError and                *)
(* FileCorruptedError.                                                     *)
(*                                                                         *)
(* The source's messages are Ukrainian; the module language has ASCII      *)
(* strings only, so every message is given in English, one fixed English   *)
(* string per source string.                                               *)
(***************************************************************************)
EXTENDS Naturals, Sequences, FiniteSets, TLC

(***************************************************************************)
(* Python values: None, str and int objects.  An int stands for every      *)
(* value that is not text and that ElementTree cannot serialize.           *)
(***************************************************************************)
None == [ty |-> "NoneType", v |-> ""]
Str(s) == [ty |-> "str", v |-> s]
Int(s) == [ty |-> "int", v |-> s]

\* bool(x) of a Python value: None and "" are false (the ints used are non-zero)
Truthy(x) == x.ty # "NoneType" /\ x.v # ""

\* "\n" + level * "  ", the strings ET.indent(tree, space="  ") writes
Indentation(level) == <<"\n", "\n  ", "\n    ", "\n      ">>[level + 1]

\* s.strip() == "" for the strings of the model
IsBlank(s) == s \in {"", " ", "\n", "\n  ", "\n    ", "\n      "}

\* ET.Element(tag, **attrib) with .text set and children appended; tail is None
Element(tag, attrib, text, children) ==
    [tag |-> tag, attrib |-> attrib, text |-> text, tail |-> None,
     children |-> children]

\* isinstance(x, ET.Element): anything else passed as a node is a plain value
IsElement(x) == "tag" \in DOMAIN x

\* Eval(v, Op) is Op(v) with v evaluated once, whatever the number of times
\* Op uses it: a let-binding whose value is computed eagerly
Eval(v, Op(_)) == CHOOSE r \in {Op(x) : x \in {v}} : TRUE

(***************************************************************************)
(* ET.indent(tree, space="  "): rewrites, in place, the text of every      *)
(* element that has children and the tail of every child, where these are  *)
(* empty or blank.  text.strip() / tail.strip() raise AttributeError on a  *)
(* value that is not a str (IndentRaises).                                 *)
(***************************************************************************)
RECURSIVE IndentRaises(_)
IndentRaises(e) ==
    /\ Len(e.children) > 0
    /\ \/ Truthy(e.text) /\ e.text.ty # "str"
       \/ \E c \in {e.children[i] : i \in 1..Len(e.children)} :
            \/ IndentRaises(c)
            \/ Truthy(c.tail) /\ c.tail.ty # "str"

\* not value or not value.strip()
BlankValue(x) == ~Truthy(x) \/ IsBlank(x.v)

\* _indent_children(elem, level)
RECURSIVE IndentChildren(_, _)
IndentChildren(elem, level) ==
    LET n == Len(elem.children)
        child_indentation == Str(Indentation(level + 1))
        \* the child c once its own children are indented
        tails(c, i) ==
            LET t1 == IF BlankValue(c.tail) THEN child_indentation ELSE c.tail
                t2 == IF i = n /\ IsBlank(t1.v) THEN Str(Indentation(level))
                      ELSE t1
            IN  [c EXCEPT !.tail = t2]
        kid(i) ==
            Eval(elem.children[i],
                 LAMBDA c : IF Len(c.children) > 0
                            THEN Eval(IndentChildren(c, level + 1),
                                      LAMBDA c1 : tails(c1, i))
                            ELSE tails(c, i))
    IN  [elem EXCEPT
           !.text = IF BlankValue(elem.text) THEN child_indentation ELSE @,
           !.children = [i \in 1..n |-> kid(i)]]

\* ET.indent(tree, space="  ") on an ElementTree whose root is an Element
indent(root) ==
    IF Len(root.children) = 0 THEN root ELSE IndentChildren(root, 0)

(***************************************************************************)
(* Serialization.  The file content is the sequence of the pieces that     *)
(* ElementTree.write hands to the file's write(): the declaration, "<tag", *)
(* one piece per attribute, ">", " />", "</tag>" and escaped character     *)
(* data.                                                                   *)
(***************************************************************************)
Piece(k, a, b) == [k |-> k, a |-> a, b |-> b]

\* _escape_cdata / _escape_attrib on the strings of the model
Escape(s) ==
    CASE s = "a&b" -> "a&amp;b"
      [] s = "x<y" -> "x&lt;y"
      [] OTHER     -> s

\* variant: a parser that leaves entity references as they stand
KeepReferences(s) == s

\* the parser's replacement of entity references
Unescape(s) ==
    CASE s = "a&amp;b" -> "a&b"
      [] s = "x&lt;y"  -> "x<y"
      [] OTHER         -> s

\* the attribute loop of _serialize_xml: stops at the first value that is
\* not a str ("cannot serialize 2 (type int)")
RECURSIVE SerializeAttrib(_)
SerializeAttrib(items) ==
    IF items = <<>> THEN [ok |-> TRUE, out |-> <<>>]
    ELSE LET k == Head(items)[1]
             v == Head(items)[2]
         IN  IF v.ty # "str" THEN [ok |-> FALSE, out |-> <<>>]
             ELSE Eval(SerializeAttrib(Tail(items)),
                       LAMBDA rest :
                         [ok  |-> rest.ok,
                          out |-> <<Piece("attr", k, Escape(v.v))>> \o rest.out])

RECURSIVE SerializeXml(_)
RECURSIVE SerializeSeq(_)
\* for e in elem: _serialize_xml(write, e, ...), stopping where one raises
SerializeSeq(es) ==
    IF es = <<>> THEN [ok |-> TRUE, out |-> <<>>]
    ELSE Eval(SerializeXml(Head(es)),
              LAMBDA first :
                IF ~first.ok THEN first
                ELSE Eval(SerializeSeq(Tail(es)),
                          LAMBDA rest :
                            [ok |-> rest.ok, out |-> first.out \o rest.out]))

\* _serialize_xml(write, elem, ...), short_empty_elements=True:
\* [ok, out]: out is what had been written when it returned or raised
SerializeXml(elem) ==
    LET lt == <<Piece("lt", elem.tag, "")>>
        tail(out) ==
            IF ~Truthy(elem.tail) THEN [ok |-> TRUE, out |-> out]
            ELSE IF elem.tail.ty # "str" THEN [ok |-> FALSE, out |-> out]
            ELSE [ok |-> TRUE,
                  out |-> out \o <<Piece("chars", Escape(elem.tail.v), "")>>]
        text == IF Truthy(elem.text)
                THEN <<Piece("chars", Escape(elem.text.v), "")>>
                ELSE <<>>
        content(open) ==
            IF Truthy(elem.text) /\ elem.text.ty # "str"
            THEN [ok |-> FALSE, out |-> open]
            ELSE Eval(SerializeSeq(elem.children),
                      LAMBDA kids :
                        IF ~kids.ok
                        THEN [ok |-> FALSE, out |-> open \o text \o kids.out]
                        ELSE tail(open \o text \o kids.out
                                  \o <<Piece("etag", elem.tag, "")>>))
    IN  Eval(SerializeAttrib(elem.attrib),
             LAMBDA items :
               IF ~items.ok THEN [ok |-> FALSE, out |-> lt \o items.out]
               ELSE IF Truthy(elem.text) \/ Len(elem.children) > 0
               THEN content(lt \o items.out \o <<Piece("gt", "", "")>>)
               ELSE tail(lt \o items.out \o <<Piece("sc", "", "")>>))

\* ElementTree.write(file, encoding='utf-8', xml_declaration=True) once the
\* file is open: the declaration, then the root
TreeWrite(root) ==
    Eval(SerializeXml(root),
         LAMBDA body :
           [ok |-> body.ok, out |-> <<Piece("decl", "", "")>> \o body.out])

(***************************************************************************)
(* ET.parse(path).getroot() on a file content: [ok, root] or [ok, msg].    *)
(***************************************************************************)
ParseFail(at, msg) == [ok |-> FALSE, next |-> at, msg |-> msg]

\* the attribute pieces that follow "<tag" at position i
RECURSIVE ParseAttrib(_, _)
ParseAttrib(toks, i) ==
    IF i <= Len(toks) /\ toks[i].k = "attr"
    THEN Eval(ParseAttrib(toks, i + 1),
              LAMBDA rest :
                [items |-> <<<<toks[i].a, Str(Unescape(toks[i].b))>>>> \o rest.items,
                 next  |-> rest.next])
    ELSE [items |-> <<>>, next |-> i]

RECURSIVE ParseElement(_, _)
RECURSIVE ParseContent(_, _, _)
\* the content of elem from position i to its end tag; character data goes
\* to elem.text before the first child and to the last child's tail after
ParseContent(toks, i, elem) ==
    IF i > Len(toks) THEN ParseFail(i, "no element found")
    ELSE LET t == toks[i]
             n == Len(elem.children)
             from(j, e) == Eval(<<j, e>>,
                                LAMBDA x : ParseContent(toks, x[1], x[2]))
         IN  CASE t.k = "chars" ->
                    IF n = 0
                    THEN from(i + 1, [elem EXCEPT !.text = Str(Unescape(t.a))])
                    ELSE from(i + 1, [elem EXCEPT !.children[n].tail =
                                                    Str(Unescape(t.a))])
               [] t.k = "lt" ->
                    Eval(ParseElement(toks, i),
                         LAMBDA c :
                           IF ~c.ok THEN c
                           ELSE from(c.next,
                                     [elem EXCEPT !.children = Append(@, c.root)]))
               [] t.k = "etag" ->
                    IF t.a = elem.tag
                    THEN [ok |-> TRUE, root |-> elem, next |-> i + 1]
                    ELSE ParseFail(i, "mismatched tag")
               [] OTHER -> ParseFail(i, "not well-formed (invalid token)")

ParseElement(toks, i) ==
    IF i > Len(toks) THEN ParseFail(i, "no element found")
    ELSE IF toks[i].k # "lt" THEN ParseFail(i, "syntax error")
    ELSE Eval(ParseAttrib(toks, i + 1),
              LAMBDA at :
                IF at.next > Len(toks) THEN ParseFail(at.next, "unclosed token")
                ELSE CASE toks[at.next].k = "sc" ->
                            [ok   |-> TRUE,
                             root |-> Element(toks[i].a, at.items, None, <<>>),
                             next |-> at.next + 1]
                       [] toks[at.next].k = "gt" ->
                            Eval(<<at.next + 1,
                                   Element(toks[i].a, at.items, None, <<>>)>>,
                                 LAMBDA x : ParseContent(toks, x[1], x[2]))
                       [] OTHER ->
                            ParseFail(at.next, "not well-formed (invalid token)"))

\* a whole document: an optional declaration, one root element, nothing after
ETparse(toks) ==
    LET start == IF toks # <<>> /\ toks[1].k = "decl" THEN 2 ELSE 1
    IN  Eval(ParseElement(toks, start),
             LAMBDA r :
               IF ~r.ok THEN r
               ELSE IF r.next <= Len(toks)
               THEN ParseFail(r.next, "junk after document element")
               ELSE r)

(***************************************************************************)
(* The exceptions.                                                         *)
(***************************************************************************)
\* FileNotFoundError(filepath): "File not found: {filepath}"
FileNotFoundError(filepath) ==
    [type |-> "FileNotFoundError", args |-> <<filepath>>,
     msg  |-> "File not found: " \o filepath]

\* FileCorruptedError(filepath, reason=""): "File corrupted: {filepath}",
\* with " ({reason})" when a reason is given
FileCorruptedError(filepath, reason) ==
    [type |-> "FileCorruptedError", args |-> <<filepath, reason>>,
     msg  |-> IF reason # ""
              THEN "File corrupted: " \o filepath \o " (" \o reason \o ")"
              ELSE "File corrupted: " \o filepath]

\* what the interpreter and the library raise (builtin exceptions)
Builtin(type, msg) == [type |-> type, args |-> <<msg>>, msg |-> msg]

NoExc == [type |-> "", args |-> <<>>, msg |-> ""]

\* how a call ended: not yet, by returning val, or by raising exc
Pending == [kind |-> "pending", val |-> None, exc |-> NoExc]
Return(v) == [kind |-> "return", val |-> v, exc |-> NoExc]
Raise(e) == [kind |-> "raise", val |-> None, exc |-> e]

(***************************************************************************)
(* The files of the demonstration and what is passed to the handler.       *)
(***************************************************************************)
Paths == {"demo.xml", "temp.xml"}
LogName == "file_operations.log"
Objects == {"h1", "h2"}
Unbound == "<unbound>"
Operations == {"read", "write", "append"}

\* at most this many write and append calls in one behaviour
MaxCalls == 2
\* at most this many changes made to the files by other programs
MaxEnv == 1

item(id, text) == Element("item", <<<<"id", id>>>>, text, <<>>)

\* root = ET.Element("data"); ET.SubElement(root, "item", id="1").text = ...
DemoRoot == Element("data", <<>>, None, <<item(Str("1"), Str("first"))>>)
\* new_root with its single item id="100"
NewRoot == Element("data", <<>>, None, <<item(Str("100"), Str("new"))>>)
\* a document with text to escape, an empty text and a nested element
NestedRoot ==
    Element("data", <<>>, None,
            <<item(Str("a&b"), Str("x<y")),
              Element("group", <<>>, Str(""), <<item(Str("7"), Str(""))>>)>>)
\* an attribute value that is not a str: ET.SubElement(root, "item", id=2)
IntAttribRoot ==
    Element("data", <<>>, None, <<item(Str("1"), Str("first")), item(Int("2"), None)>>)
\* a text that is not a str, on an element with children
IntTextRoot == Element("data", <<>>, Int("5"), <<item(Str("1"), None)>>)
WriteArgs == {NewRoot, NestedRoot, IntAttribRoot, IntTextRoot}

\* new_item = ET.Element("item", id="2"); an element with a child; an item
\* that cannot be serialized; a value that is not an element
AppendArgs ==
    {item(Str("2"), Str("second")),
     Element("group", <<>>, None, <<item(Str("7"), Str("x<y"))>>),
     item(Int("3"), None), None}

\* "<?xml version='1.0'?><data><item>unclosed": the corrupted demo.xml
Unclosed ==
    <<Piece("decl", "", ""), Piece("lt", "data", ""), Piece("gt", "", ""),
      Piece("lt", "item", ""), Piece("gt", "", ""), Piece("chars", "unclosed", "")>>

\* contents other programs (and the demonstration itself) put at a path
DirectContents == {Unclosed}

File(content) ==
    [exists |-> TRUE, readable |-> TRUE, writable |-> TRUE, content |-> content]
NoFile ==
    [exists |-> FALSE, readable |-> TRUE, writable |-> TRUE, content |-> <<>>]

VARIABLES
    fs,        \* the document files: path -> file
    logOpen,   \* whether file_operations.log can be opened for appending
    logLines,  \* the records in file_operations.log
    stderr,    \* the records the call in progress has sent to the console
    filepath,  \* self.filepath of each handler object the caller holds
    handlers,  \* logger.handlers of logging.getLogger(name)
    nOpen,     \* handlers created and not yet closed
    pc,        \* where the call in progress is; "idle" or "done" between calls
    call,      \* the call in progress or just finished
    calls,     \* write and append calls made
    envs,      \* changes made by other programs
    written,   \* path -> the root last written there by write, or NoDoc
    appended   \* path -> the run of appends since the file last changed otherwise

vars == <<fs, logOpen, logLines, stderr, filepath, handlers, nOpen, pc, call,
          calls, envs, written, appended>>

NoDoc == [none |-> TRUE]
NoRun == [start |-> <<>>, added |-> <<>>, on |-> FALSE]

NoCall ==
    [op |-> "", name |-> "", h |-> "", path |-> "", arg |-> None, mode |-> "",
     watched |-> "", func |-> Pending, result |-> Pending,
     fileBefore |-> NoFile, logBefore |-> <<>>, boundBefore |-> FALSE]

LoggerNames == Operations \cup {"func"}

Init ==
    /\ fs = [p \in Paths |-> IF p = "demo.xml"
                             THEN File(TreeWrite(indent(DemoRoot)).out)
                             ELSE NoFile]
    /\ logOpen = TRUE
    /\ logLines = <<>>
    /\ stderr = <<>>
    /\ filepath = [h \in Objects |-> Unbound]
    /\ handlers = [n \in LoggerNames |-> <<>>]
    /\ nOpen = 0
    /\ pc = "idle"
    /\ call = NoCall
    /\ calls = 0
    /\ envs = 0
    /\ written = [p \in Paths |-> NoDoc]
    /\ appended = [p \in Paths |-> NoRun]

Between == pc \in {"idle", "done"}

(***************************************************************************)
(* The environment: other programs (the demonstration among them) create,  *)
(* replace, remove and chmod the files between two calls.                  *)
(***************************************************************************)
\* tree.write(path) / open(path, "w").write(...) outside the handler
DirectWrite(p, content) ==
    /\ Between
    /\ envs < MaxEnv
    /\ envs' = envs + 1
    /\ fs' = [fs EXCEPT ![p] = File(content)]
    /\ written' = [written EXCEPT ![p] = NoDoc]
    /\ appended' = [appended EXCEPT ![p] = NoRun]
    /\ pc' = "idle"
    /\ call' = NoCall
    /\ stderr' = <<>>
    /\ UNCHANGED <<logOpen, logLines, filepath, handlers, nOpen, calls>>

\* os.remove(path)
Remove(p) ==
    /\ Between
    /\ envs < MaxEnv
    /\ envs' = envs + 1
    /\ fs[p].exists
    /\ fs' = [fs EXCEPT ![p] = NoFile]
    /\ written' = [written EXCEPT ![p] = NoDoc]
    /\ appended' = [appended EXCEPT ![p] = NoRun]
    /\ pc' = "idle"
    /\ call' = NoCall
    /\ stderr' = <<>>
    /\ UNCHANGED <<logOpen, logLines, filepath, handlers, nOpen, calls>>

\* <<readable, writable>>
Permissions == {<<TRUE, TRUE>>, <<TRUE, FALSE>>, <<FALSE, TRUE>>}

\* the permissions behind the PermissionError branches
Chmod(p, r, w) ==
    /\ Between
    /\ envs < MaxEnv
    /\ envs' = envs + 1
    /\ fs[p].exists
    /\ <<r, w>> # <<fs[p].readable, fs[p].writable>>
    /\ fs' = [fs EXCEPT ![p].readable = r, ![p].writable = w]
    /\ pc' = "idle"
    /\ call' = NoCall
    /\ stderr' = <<>>
    /\ UNCHANGED <<logLines, logOpen, filepath, handlers, nOpen, calls, written,
                   appended>>

\* file_operations.log becomes (un)openable: permissions, a directory there
LogChmod ==
    /\ Between
    /\ envs < MaxEnv
    /\ envs' = envs + 1
    /\ logOpen' = ~logOpen
    /\ pc' = "idle"
    /\ call' = NoCall
    /\ stderr' = <<>>
    /\ UNCHANGED <<fs, logLines, filepath, handlers, nOpen, calls, written,
                   appended>>

(***************************************************************************)
(* XMLFileHandler.__init__                                                 *)
(***************************************************************************)
\* variant: a constructor that checks nothing
existsAlways(p) == TRUE

\* os.path.exists(filepath)
exists(p) == fs[p].exists

\* h = XMLFileHandler(p): self.filepath is set, then the check may raise, and
\* then the caller holds no object
Construct(h, p) ==
    /\ Between
    /\ filepath[h] = Unbound
    /\ call' = [NoCall EXCEPT !.op = "__init__", !.h = h, !.path = p,
                              !.fileBefore = fs[p],
                              !.result = IF ~exists(p)
                                         THEN Raise(FileNotFoundError(p))
                                         ELSE Return(None)]
    /\ filepath' = IF ~exists(p) THEN filepath ELSE [filepath EXCEPT ![h] = p]
    /\ pc' = "done"
    /\ stderr' = <<>>
    /\ UNCHANGED <<envs, fs, logOpen, logLines, handlers, nOpen, calls,
                   written, appended>>

(***************************************************************************)
(* logged(exception_type, mode): the wrapper, with one action for each     *)
(* group of statements.  Records carry name, levelname and message; the    *)
(* asctime field is not modelled.                                          *)
(***************************************************************************)
\* @logged(FileCorruptedError, mode=...) on read, write and append
Decoration(op) ==
    [exception_type |-> "FileCorruptedError",
     mode |-> IF op = "read" THEN "console" ELSE "file"]

\* logging.StreamHandler() if mode == "console" else logging.FileHandler(...)
HandlerClass(mode) == IF mode = "console" THEN "StreamHandler" ELSE "FileHandler"

Record(name, levelname, message) ==
    [name |-> name, levelname |-> levelname, message |-> message]

\* lines after every handler of class cls among hs (logger.handlers) handled rec
Emit(lines, hs, cls, rec) ==
    LET k == Len(SelectSeq(hs, LAMBDA c : c = cls))
    IN  lines \o [i \in 1..k |-> rec]

\* logger.info(...) / logger.error(...): to the console and to the log file
Log(rec) ==
    /\ stderr' = Emit(stderr, handlers[call.name], "StreamHandler", rec)
    /\ logLines' = Emit(logLines, handlers[call.name], "FileHandler", rec)

\* f"Calling {func.__name__}"
InvokedRecord(name) == Record(name, "INFO", "Calling " \o name)
\* f"{func.__name__} completed successfully"
SuccessRecord(name) == Record(name, "INFO", name \o " completed successfully")
\* f"{exception_type.__name__}: {e}"
ErrorRecord(name, exception_type, e) ==
    Record(name, "ERROR", exception_type \o ": " \o e.msg)

\* logging.FileHandler("file_operations.log") opens the file at once and
\* raises what open() raises; logging.StreamHandler() opens nothing
HandlerRaises(mode) == mode = "file" /\ ~logOpen

\* wrapper() up to the call of func, for the call c: getLogger, setLevel,
\* handlers.clear(), the handler's construction, addHandler, and inside the
\* try the record of the invocation
Enter(c) ==
    /\ Between
    /\ IF HandlerRaises(c.mode)
       THEN /\ handlers' = [handlers EXCEPT ![c.name] = <<>>]
            /\ call' = [c EXCEPT !.result = Raise(Builtin("PermissionError",
                           "[Errno 13] Permission denied: '" \o LogName \o "'"))]
            /\ stderr' = <<>>
            /\ pc' = "done"
            /\ UNCHANGED <<nOpen, logLines>>
       ELSE LET hs == <<HandlerClass(c.mode)>>
            IN  /\ handlers' = [handlers EXCEPT ![c.name] = hs]
                /\ nOpen' = nOpen + 1
                /\ stderr' = Emit(<<>>, hs, "StreamHandler", InvokedRecord(c.name))
                /\ logLines' = Emit(logLines, hs, "FileHandler", InvokedRecord(c.name))
                /\ call' = c
                /\ pc' = "func"

\* handler.read() / handler.write(root) / handler.append(new_element)
Call(op, h, arg) ==
    /\ op # "read" => calls < MaxCalls
    /\ filepath[h] # Unbound
    /\ Enter([NoCall EXCEPT
                !.op = op, !.name = op, !.h = h, !.path = filepath[h],
                !.arg = arg, !.mode = Decoration(op).mode,
                !.watched = Decoration(op).exception_type,
                !.fileBefore = fs[filepath[h]], !.logBefore = logLines,
                !.boundBefore = TRUE])
    /\ calls' = IF op = "read" THEN calls ELSE calls + 1
    /\ UNCHANGED <<envs, fs, logOpen, filepath, written, appended>>

\* where wrapper() goes once func has ended with r: on to the success record,
\* into the except clause, or straight to finally with r propagating
AfterFunc(r) ==
    /\ pc' = IF r.kind = "return" THEN "ok"
             ELSE IF r.exc.type = call.watched THEN "except"
             ELSE "finally"
    /\ call' = [call EXCEPT
                  !.func = r,
                  !.result = IF r.kind = "raise" /\ r.exc.type # call.watched
                             THEN r ELSE @]

\* logger.info(f"{func.__name__} completed successfully"); return result
LogSuccess ==
    /\ pc = "ok"
    /\ Log(SuccessRecord(call.name))
    /\ call' = [call EXCEPT !.result = call.func]
    /\ pc' = "finally"
    /\ UNCHANGED <<envs, fs, logOpen, filepath, handlers, nOpen, calls, written, appended>>

\* variant: an except clause that logs and does not re-raise
LogErrorNoRaise ==
    /\ pc = "except"
    /\ Log(ErrorRecord(call.name, call.watched, call.func.exc))
    /\ call' = [call EXCEPT !.result = Return(None)]
    /\ pc' = "finally"
    /\ UNCHANGED <<envs, fs, logOpen, filepath, handlers, nOpen, calls, written, appended>>

\* except exception_type as e: logger.error(f"{name}: {e}"); raise
LogError ==
    /\ pc = "except"
    /\ Log(ErrorRecord(call.name, call.watched, call.func.exc))
    /\ call' = [call EXCEPT !.result = call.func]
    /\ pc' = "finally"
    /\ UNCHANGED <<envs, fs, logOpen, filepath, handlers, nOpen, calls, written, appended>>

\* list.remove(x): without the first x
RECURSIVE ListRemove(_, _)
ListRemove(s, x) ==
    IF s = <<>> THEN s
    ELSE IF Head(s) = x THEN Tail(s)
    ELSE <<Head(s)>> \o ListRemove(Tail(s), x)

\* variant: a wrapper without the finally clause
FinallyKeepsHandler ==
    /\ pc = "finally"
    /\ pc' = "done"
    /\ UNCHANGED <<envs, fs, logOpen, logLines, stderr, filepath, call, calls, written,
                   appended, nOpen, handlers>>

\* finally: handler.close(); logger.removeHandler(handler)
Finally ==
    /\ pc = "finally"
    /\ nOpen' = nOpen - 1
    /\ handlers' = [handlers EXCEPT
                      ![call.name] = ListRemove(@, HandlerClass(call.mode))]
    /\ pc' = "done"
    /\ UNCHANGED <<envs, fs, logOpen, logLines, stderr, filepath, call, calls, written,
                   appended>>

(***************************************************************************)
(* XMLFileHandler.read / write / append: the bodies the wrapper calls.     *)
(***************************************************************************)
ENOENT(p) == Builtin("FileNotFoundError", "[Errno 2] No such file or directory: '" \o p \o "'")
EACCES(p) == Builtin("PermissionError", "[Errno 13] Permission denied: '" \o p \o "'")

\* ET.parse(self.filepath): opens the file for reading and parses all of it
ParseFile(p) ==
    IF ~fs[p].exists THEN Raise(ENOENT(p))
    ELSE IF ~fs[p].readable THEN Raise(EACCES(p))
    ELSE Eval(ETparse(fs[p].content),
              LAMBDA r : IF r.ok THEN Return(r.root)
                         ELSE Raise(Builtin("ParseError", r.msg)))

\* ET.indent(tree, space="  "); tree.write(path, encoding='utf-8',
\* xml_declaration=True): [res, file], file being what is at the path after.
\* The file is opened, and so created or truncated, before anything is
\* serialized; what was written before a failure stays.
IndentAndWrite(p, root) ==
    IF ~IsElement(root)
    THEN [res  |-> Raise(Builtin("TypeError", "object of type 'NoneType' has no len()")),
          file |-> fs[p]]
    ELSE IF IndentRaises(root)
    THEN [res  |-> Raise(Builtin("AttributeError", "'int' object has no attribute 'strip'")),
          file |-> fs[p]]
    ELSE IF fs[p].exists /\ ~fs[p].writable
    THEN [res |-> Raise(EACCES(p)), file |-> fs[p]]
    ELSE Eval(TreeWrite(indent(root)),
              LAMBDA w :
                [res  |-> IF w.ok THEN Return(None)
                          ELSE Raise(Builtin("TypeError", "cannot serialize (type int)")),
                 file |-> [exists   |-> TRUE,
                           readable |-> fs[p].readable,
                           writable |-> TRUE,
                           content  |-> w.out]])

\* the except clauses: ET.ParseError (read and append only), PermissionError
\* with the operation's own words, and Exception with str(e)
Reclassify(p, e, parseClause, permission) ==
    IF parseClause /\ e.type = "ParseError"
    THEN FileCorruptedError(p, "XML error: " \o e.msg)
    ELSE IF e.type = "PermissionError" THEN FileCorruptedError(p, permission)
    ELSE FileCorruptedError(p, e.msg)

\* variant: a read that repeats the constructor's check
readChecksExists(p) ==
    IF ~exists(p) THEN Raise(FileNotFoundError(p))
    ELSE Eval(ParseFile(p),
              LAMBDA r : IF r.kind = "return" THEN r
                         ELSE Raise(Reclassify(p, r.exc, TRUE, "no read permission")))

\* read(self)
read(p) ==
    Eval(ParseFile(p),
         LAMBDA r : IF r.kind = "return" THEN r
                    ELSE Raise(Reclassify(p, r.exc, TRUE, "no read permission")))

\* write(self, root): [res, file]
write(p, root) ==
    Eval(IndentAndWrite(p, root),
         LAMBDA w : IF w.res.kind = "return" THEN w
                    ELSE [w EXCEPT !.res = Raise(Reclassify(p, w.res.exc, FALSE,
                                                            "no write permission"))])

\* variant: root.insert(0, new_element)
RootInsertFirst(root, new_element) ==
    IF IsElement(new_element)
    THEN Return([root EXCEPT !.children = <<new_element>> \o @])
    ELSE Raise(Builtin("TypeError", "insert() argument 2 must be xml.etree.ElementTree.Element, not NoneType"))

\* tree.getroot().append(new_element): TypeError unless it is an Element
RootAppend(root, new_element) ==
    IF IsElement(new_element)
    THEN Return([root EXCEPT !.children = Append(@, new_element)])
    ELSE Raise(Builtin("TypeError", "append() argument must be xml.etree.ElementTree.Element, not NoneType"))

\* the try block of append: parse, append to the root, indent and write
ParseAppendWrite(p, new_element) ==
    Eval(ParseFile(p),
         LAMBDA t :
           IF t.kind = "raise" THEN [res |-> t, file |-> fs[p]]
           ELSE Eval(RootAppend(t.val, new_element),
                     LAMBDA a :
                       IF a.kind = "raise" THEN [res |-> a, file |-> fs[p]]
                       ELSE Eval(a.val, LAMBDA root : IndentAndWrite(p, root))))

\* append(self, new_element): [res, file]
append(p, new_element) ==
    Eval(ParseAppendWrite(p, new_element),
         LAMBDA w : IF w.res.kind = "return" THEN w
                    ELSE [w EXCEPT !.res = Raise(Reclassify(p, w.res.exc, TRUE,
                                                            "no permission"))])

\* result = func(*args, **kwargs) for read
ReadBody ==
    /\ pc = "func" /\ call.op = "read"
    /\ \E r \in {read(call.path)} : AfterFunc(r)
    /\ UNCHANGED <<envs, fs, logOpen, logLines, stderr, filepath, handlers, nOpen,
                   calls, written, appended>>

\* ... for write; written[p] is the root the caller passed
WriteBody ==
    /\ pc = "func" /\ call.op = "write"
    /\ \E p \in {call.path} : \E w \in {write(p, call.arg)} :
           /\ AfterFunc(w.res)
           /\ fs' = [fs EXCEPT ![p] = w.file]
           /\ written' = [written EXCEPT
                            ![p] = IF w.res.kind = "return" THEN call.arg
                                   ELSE IF w.file = fs[p] THEN @
                                   ELSE NoDoc]
           /\ appended' = [appended EXCEPT
                             ![p] = IF w.res.kind = "raise" /\ w.file = fs[p]
                                    THEN @ ELSE NoRun]
    /\ UNCHANGED <<envs, logOpen, logLines, stderr, filepath, handlers, nOpen, calls>>

\* ... for append; appended[p] records the children the run started from
\* and the nodes appended since
AppendBody ==
    /\ pc = "func" /\ call.op = "append"
    /\ \E p \in {call.path} : \E w \in {append(p, call.arg)} :
           /\ AfterFunc(w.res)
           /\ fs' = [fs EXCEPT ![p] = w.file]
           /\ written' = [written EXCEPT ![p] = IF w.file = fs[p] THEN @ ELSE NoDoc]
           /\ appended' = [appended EXCEPT
                             ![p] = IF w.res.kind = "return"
                                    THEN [start |-> IF @.on THEN @.start
                                                    ELSE ParseFile(p).val.children,
                                          added |-> Append(@.added, call.arg),
                                          on    |-> TRUE]
                                    ELSE IF w.file = fs[p] THEN @
                                    ELSE NoRun]
    /\ UNCHANGED <<envs, logOpen, logLines, stderr, filepath, handlers, nOpen, calls>>

(***************************************************************************)
(* The decorator around any function: how func ends is the input.          *)
(***************************************************************************)
Modes == {"console", "file"}
Behaviours == {"returns", "raises watched", "raises other"}

\* a call of logged(FileCorruptedError, mode)(func)
CallAny(mode, behaviour) ==
    /\ calls < MaxCalls
    /\ Enter([NoCall EXCEPT
                !.op = "func", !.name = "func", !.arg = Str(behaviour),
                !.mode = mode, !.watched = "FileCorruptedError",
                !.logBefore = logLines])
    /\ calls' = calls + 1
    /\ UNCHANGED <<envs, fs, logOpen, filepath, written, appended>>

\* result = func(*args, **kwargs) for that function
AnyBody ==
    /\ pc = "func" /\ call.op = "func"
    /\ AfterFunc(CASE call.arg.v = "returns" -> Return(Str("result"))
                   [] call.arg.v = "raises watched" ->
                        Raise(FileCorruptedError("any.xml", "reason"))
                   [] OTHER -> Raise(Builtin("ValueError", "other")))
    /\ UNCHANGED <<envs, fs, logOpen, logLines, stderr, filepath, handlers, nOpen,
                   calls, written, appended>>

(***************************************************************************)
(* The program: handlers over the files, with the environment.             *)
(***************************************************************************)
Next ==
    \/ \E h \in Objects, p \in Paths : Construct(h, p)
    \/ \E h \in Objects : Call("read", h, None)
    \/ \E h \in Objects, root \in WriteArgs : Call("write", h, root)
    \/ \E h \in Objects, new_element \in AppendArgs : Call("append", h, new_element)
    \/ ReadBody
    \/ WriteBody
    \/ AppendBody
    \/ LogSuccess
    \/ LogError
    \/ Finally
    \/ \E p \in Paths, c \in DirectContents : DirectWrite(p, c)
    \/ \E p \in Paths : Remove(p)
    \/ \E p \in Paths, rw \in Permissions : Chmod(p, rw[1], rw[2])
    \/ LogChmod

Spec == Init /\ [][Next]_vars

\* every decorated function: the handler's operations and any other func.
\* Of the environment only the log file's state is kept, the one thing
\* outside a call that the wrapper depends on.
NextLogged ==
    \/ \E h \in Objects, p \in Paths : Construct(h, p)
    \/ \E h \in Objects : Call("read", h, None)
    \/ \E h \in Objects, root \in WriteArgs : Call("write", h, root)
    \/ \E h \in Objects, new_element \in AppendArgs : Call("append", h, new_element)
    \/ \E mode \in Modes, b \in Behaviours : CallAny(mode, b)
    \/ ReadBody
    \/ WriteBody
    \/ AppendBody
    \/ AnyBody
    \/ LogSuccess
    \/ LogError
    \/ Finally
    \/ LogChmod

SpecLogged == Init /\ [][NextLogged]_vars

(***************************************************************************)
(* What the claims speak of.                                               *)
(***************************************************************************)
\* control is back with the caller of read / write / append
Returned == pc = "done" /\ call.op \in Operations

\* the reasons read and append give for ET.ParseError
ParseReasons ==
    {"XML error: " \o m :
       m \in {"no element found", "unclosed token", "mismatched tag",
              "syntax error", "not well-formed (invalid token)",
              "junk after document element"}}

\* the call ended by raising FileCorruptedError
Corrupted == call.result.kind = "raise" /\ call.result.exc.type = "FileCorruptedError"

\* a node as the spec's data model has it: tag, attributes, text content and
\* children; the blank text of an element with children is indentation, and a
\* tail is layout of the parent
RECURSIVE Node(_)
Node(e) ==
    [tag      |-> e.tag,
     attrib   |-> e.attrib,
     text     |-> IF ~Truthy(e.text) \/ (Len(e.children) > 0 /\ IsBlank(e.text.v))
                  THEN "" ELSE e.text.v,
     children |-> [i \in 1..Len(e.children) |-> Node(e.children[i])]]

Nodes(es) == [i \in 1..Len(es) |-> Node(es[i])]

\* the records the call has emitted so far, at its destination
Emitted ==
    IF call.mode = "console" THEN stderr
    ELSE SubSeq(logLines, Len(call.logBefore) + 1, Len(logLines))

\* C1: every failure that leaves read, write or append is a
\* FileCorruptedError: no library or OS error and no FileNotFoundError
\* crosses the boundary, also when the audit log cannot be opened.
C1_OnlyCorruptedLeaves ==
    (Returned /\ call.result.kind = "raise") => Corrupted

\* C2: the constructor raises FileNotFoundError carrying the given path, and
\* binds no handler, exactly when the path does not exist; otherwise it
\* stores the given path; and no step changes the path a handler stores.
C2_ConstructState ==
    (pc = "done" /\ call.op = "__init__") =>
        IF call.fileBefore.exists
        THEN call.result = Return(None) /\ filepath[call.h] = call.path
        ELSE /\ call.result.kind = "raise"
             /\ call.result.exc.type = "FileNotFoundError"
             /\ call.result.exc.args = <<call.path>>
             /\ call.result.exc.msg = "File not found: " \o call.path
             /\ filepath[call.h] = Unbound

C2_Construct ==
    /\ [] C2_ConstructState
    /\ [][\A h \in Objects : filepath[h] # Unbound => filepath'[h] = filepath[h]]_vars

\* one handler holds demo.xml and constructing another over a missing path failed
C2_Witness ==
    /\ pc = "done" /\ call.op = "__init__" /\ call.result.kind = "raise"
    /\ call.path = "temp.xml"
    /\ \E h \in Objects : filepath[h] = "demo.xml"

\* C3: a read that returns after successful writes returns a root whose
\* children are, in order, those of the root passed to the most recent write;
\* nothing of what the file held before remains.
C3_WriteReadRoundTrip ==
    (Returned /\ call.op = "read" /\ call.result.kind = "return"
       /\ written[call.path] # NoDoc)
    => Nodes(call.result.val.children) = Nodes(written[call.path].children)

\* write, then write of the nested document over it, then read
C3_Witness ==
    /\ Returned /\ call.op = "read" /\ call.result.kind = "return"
    /\ written[call.path] = NestedRoot
    /\ Len(SelectSeq(logLines, LAMBDA r : r = SuccessRecord("write"))) = 2
    /\ \A p \in Paths \ {call.path} : ~fs[p].exists

\* C4: a read that returns after N successful appends returns the children the
\* document had before them, followed by the appended nodes in the order of
\* the calls: nothing reordered, merged or lost.
C4_AppendAddsLast ==
    (Returned /\ call.op = "read" /\ call.result.kind = "return"
       /\ appended[call.path].on)
    => Nodes(call.result.val.children)
         = Nodes(appended[call.path].start \o appended[call.path].added)

\* item 1, then append of item 2 and of a group: read returns the three in order
C4_Witness ==
    /\ Returned /\ call.op = "read" /\ call.result.kind = "return"
    /\ appended[call.path].on
    /\ Len(appended[call.path].added) = 2
    /\ Nodes(call.result.val.children)
         = <<Node(item(Str("1"), Str("first"))),
             Node(item(Str("2"), Str("second"))),
             Node(Element("group", <<>>, None, <<item(Str("7"), Str("x<y"))>>))>>

\* C5: a write or append call adds exactly the invocation record and then one
\* success or error record to the log file; a read call adds nothing to it.
C5_LogGainsOnePair ==
    Returned =>
        IF call.op = "read" THEN logLines = call.logBefore
        ELSE /\ Len(logLines) = Len(call.logBefore) + 2
             /\ SubSeq(logLines, 1, Len(call.logBefore)) = call.logBefore
             /\ logLines[Len(call.logBefore) + 1] = InvokedRecord(call.name)
             /\ \/ logLines[Len(logLines)] = SuccessRecord(call.name)
                \/ logLines[Len(logLines)].levelname = "ERROR"

\* C6: the invocation record is emitted before func runs; a return is followed
\* by the success record and is handed on unchanged; a watched error is
\* followed by the error record, with no success record, and is the error
\* the caller gets; any other error reaches the caller with neither record.
C6_RecordsAndTransparency ==
    /\ pc \in {"func", "ok", "except"} => Emitted = <<InvokedRecord(call.name)>>
    /\ pc = "func" => call.func = Pending
    /\ (pc = "done" /\ call.func.kind = "return") =>
           /\ Emitted = <<InvokedRecord(call.name), SuccessRecord(call.name)>>
           /\ call.result = call.func
    /\ (pc = "done" /\ call.func.kind = "raise") =>
           /\ call.result = call.func
           /\ Emitted =
                IF call.func.exc.type = call.watched
                THEN <<InvokedRecord(call.name),
                       ErrorRecord(call.name, call.watched, call.func.exc)>>
                ELSE <<InvokedRecord(call.name)>>

\* a function raised an error that is not watched, audited to the console
C6_Witness ==
    /\ pc = "done" /\ call.mode = "console"
    /\ call.func.kind = "raise" /\ call.func.exc.type = "ValueError"
    /\ call.result = call.func
    /\ stderr = <<InvokedRecord("func")>>

\* C7: at most one log handler is ever open, and between calls none is open
\* and none is attached to a logger, however the call ended.
C7_HandlerScopedToCall ==
    /\ nOpen <= 1
    /\ Between => /\ nOpen = 0
                  /\ \A n \in LoggerNames : handlers[n] = <<>>

\* an error that is not watched left a call audited to the log file
C7_Witness ==
    /\ pc = "done" /\ call.mode = "file"
    /\ call.func.kind = "raise" /\ call.func.exc.type = "ValueError"
    /\ nOpen = 0 /\ handlers["func"] = <<>>

\* C8: read and append on a readable file that cannot be parsed fail with
\* FileCorruptedError whose reason is a parse error, and leave the file as it was.
C8_UnparseableIsParseError ==
    (Returned /\ call.op \in {"read", "append"}
       /\ call.fileBefore.exists /\ call.fileBefore.readable
       /\ ~ETparse(call.fileBefore.content).ok)
    => /\ Corrupted
       /\ call.result.exc.args[2] \in ParseReasons
       /\ fs[call.path] = call.fileBefore

\* C9: after a write or append call the file holds what it held before the
\* call or a complete document, never a part of one.
C9_NeverPartial ==
    (Returned /\ call.op \in {"write", "append"})
    => \/ fs[call.path] = call.fileBefore
       \/ fs[call.path].exists /\ ETparse(fs[call.path].content).ok

====
